---- MODULE Spec2Model ----
(***************************************************************************)
(* Request handlers of the library catalogue: the Author controller        *)
(* (controllers/authorController.js) and the Genre controller, over the    *)
(* Author, Genre and Book collections of the document store.               *)
(*                                                                         *)
(* A handler runs up to its first await that is followed by a store write  *)
(* in one step and the write in a second step, so two requests interleave  *)
(* exactly where the event loop lets them.  The two reads of a Promise.all *)
(* are taken as one read step.  NameInputs are tuples of one-character        *)
(* strings.                                                                *)
(***************************************************************************)
EXTENDS Integers, Sequences, FiniteSets, TLC

VARIABLES
  controller, \* the controller module whose routes this behaviour exercises
  Author,     \* the Author collection: a set of documents
  Genre,      \* the Genre collection
  Book,       \* the Book collection, written by the environment only
  nextId,     \* the next ObjectId the driver generates
  slot,       \* the requests in flight, between two awaits
  out         \* what the handler that has just finished called on res / next

vars == <<controller, Author, Genre, Book, nextId, slot, out>>

----------------------------------------------------------------------------
(* Bounds of the model *)

\* ObjectIds the store hands out / a route can name
MaxIds == 2
\* Book documents the environment keeps at one time
MaxBooks == 1
\* requests in flight at one time
MaxSlots == 2

AlphaNum == {"a", "b"}
Ids == 1..MaxIds
BookIds == 1..MaxBooks
Slots == 1..MaxSlots

\* the name fields a client submits: empty, blank, padded, too short,
\* long enough, and with a character escape() rewrites
NameInputs ==
  {<<>>, <<" ">>, <<"a">>, <<" ", "a", " ">>, <<"a", "a", "a">>,
   <<"a", "<", "a">>, <<"<">>}

\* submitted date fields: empty, a well-formed ISO 8601 date, a malformed one

Null == [null |-> TRUE]
\* an empty form field, '' in req.body
Empty == [empty |-> TRUE]

ISO == <<"1", "9", "7", "0", "-", "0", "1", "-", "0", "2">>

AuthorForm(first, family, birth, death) ==
  [first_name |-> first, family_name |-> family,
   date_of_birth |-> birth, date_of_death |-> death]

\* the author forms a client submits: two natural keys, one of them twice
\* (padded, with other dates), and a form for each rule a field can break
AuthorInputs ==
  {AuthorForm(<<"a">>, <<"b">>, <<>>, <<>>),
   AuthorForm(<<" ", "a">>, <<"b", " ">>, ISO, <<>>),
   AuthorForm(<<"b">>, <<"a">>, ISO, ISO),
   AuthorForm(<<>>, <<"b">>, <<>>, <<>>),
   AuthorForm(<<"a">>, <<"<">>, <<>>, <<>>),
   AuthorForm(<<"a">>, <<"b">>, <<"x">>, <<>>),
   AuthorForm(<<" ">>, <<"a", " ", "b">>, ISO, <<"x">>)}

----------------------------------------------------------------------------
(* express-validator: sanitizers and validators of the chains *)

IsSpace(c) == c = " "

RECURSIVE ltrim(_)
ltrim(s) == IF s # <<>> /\ IsSpace(Head(s)) THEN ltrim(Tail(s)) ELSE s

RECURSIVE rtrim(_)
rtrim(s) ==
  IF s # <<>> /\ IsSpace(s[Len(s)]) THEN rtrim(SubSeq(s, 1, Len(s) - 1)) ELSE s

trim(s) == rtrim(ltrim(s))

escapeChar(c) ==
  CASE c = "&" -> <<"&", "a", "m", "p", ";">>
    [] c = "<" -> <<"&", "l", "t", ";">>
    [] c = ">" -> <<"&", "g", "t", ";">>
    [] OTHER -> <<c>>

RECURSIVE escape(_)
escape(s) == IF s = <<>> THEN <<>> ELSE escapeChar(Head(s)) \o escape(Tail(s))

isLength(s, min) == Len(s) >= min

isAlphanumeric(s) == s # <<>> /\ \A i \in 1..Len(s) : s[i] \in AlphaNum

isISO8601(s) == s = ISO

\* optional({ values: 'falsy' }): an empty field skips the rest of its chain
falsy(s) == s = <<>>

\* toDate(): the Date of a well-formed string, null of any other
toDate(s) == IF isISO8601(s) THEN [days |-> 1] ELSE Null

Error(path, msg) == [path |-> path, msg |-> msg]

----------------------------------------------------------------------------
(* Responses *)

None == [op |-> "none"]

render(view, locals) == [act |-> "render", view |-> view, locals |-> locals]
redirect(url) == [act |-> "redirect", url |-> url]
nextErr(name, status) == [act |-> "next", name |-> name, status |-> status]

\* the url virtual of a document: derived from its identifier alone
url(route, id) == [path |-> route, id |-> id]
listUrl(path) == [path |-> path, id |-> 0]

\* a handler that takes every submit for a valid one
isEmpty_always(errors) == TRUE

\* errors.isEmpty()
isEmpty(errors) == errors = <<>>

\* the absent document answered as the sibling handlers do, with a redirect
not_found_redirect(message) == <<redirect(listUrl("/catalog/authors"))>>

\* const err = new Error(message); err.status = 404; return next(err)
not_found(message) == <<nextErr(message, 404)>>

Idle == [pc |-> "idle"]

\* a request takes the first free slot
Free(s) ==
  /\ slot[s].pc = "idle"
  /\ \A t \in Slots : t < s => slot[t].pc # "idle"

\* a write to a collection: every other request in flight on it has now had
\* the collection written under it, between its read and its own write
Raced(s) ==
  [t \in Slots |->
     IF t # s /\ slot[t].pc # "idle" THEN [slot[t] EXCEPT !.raced = TRUE]
     ELSE slot[t]]

Respond(op, id, body, errors, calls, resp, raced) ==
  [op |-> op, id |-> id, body |-> body, errors |-> errors, calls |-> calls,
   resp |-> resp, raced |-> raced]

----------------------------------------------------------------------------
(* The store *)

findById(coll, id) ==
  IF \E d \in coll : d._id = id THEN CHOOSE d \in coll : d._id = id ELSE Null

\* Book.find({ genre: id }) / Book.find({ author: id })
booksOfGenre(id) == {b \in Book : b.genre = id}
booksOfAuthor(id) == {b \in Book : b.author = id}

findByIdAndDelete(coll, id) == {d \in coll : d._id # id}

\* an update whose filter matches every document
findByIdAndUpdate_unfiltered(coll, id, doc) == {doc : d \in coll}

\* findByIdAndUpdate(id, doc, {}): overwrites the fields of the stored
\* document with that _id; a missing document is not inserted
findByIdAndUpdate(coll, id, doc) ==
  {IF d._id = id THEN doc ELSE d : d \in coll}

----------------------------------------------------------------------------
(* Genre controller *)

GenreUrl(id) == url("/catalog/genre/", id)

genre_create_chain(name) ==
  IF isLength(trim(name), 3) THEN <<>>
  ELSE <<Error("name", "Genre name must contain at least 3 characters")>>

genre_update_chain(name) ==
  IF isLength(trim(name), 1) THEN <<>>
  ELSE <<Error("name", "Invalid Genre Value")>>

genre_body(name) == [name |-> escape(trim(name))]

\* a lookup that never matches
Genre_findOne_none(body) == {}

\* Genre.findOne({ name: req.body.name })
Genre_findOne(body) == {d \in Genre : d.name = body.name}

genre_detail(s) ==
  /\ controller = "genre" /\ Free(s)
  /\ \E id \in Ids :
       LET genre == findById(Genre, id)
           booksInGenre == booksOfGenre(id)
       IN out' = Respond("genre_detail", id, Null, <<>>,
                         <<"Genre.findById", "Book.find">>,
                         IF genre = Null
                         THEN not_found("Genre not found")
                         ELSE <<render("genre_detail",
                                       [genre |-> genre,
                                        genre_books |-> booksInGenre])>>,
                         FALSE)
  /\ UNCHANGED <<controller, Author, Genre, Book, nextId, slot>>

genre_create_post(s) ==
  /\ controller = "genre" /\ Free(s)
  /\ \E name \in NameInputs :
       LET errors == genre_create_chain(name)
           body == genre_body(name)
           genre == [_id |-> nextId, name |-> body.name]
           found == Genre_findOne(body)
       IN IF ~isEmpty(errors)
          THEN /\ out' = Respond("genre_create_post", 0, body, errors, <<>>,
                                 <<render("genre_form",
                                          [genre |-> genre,
                                           errors |-> errors])>>,
                                 FALSE)
               /\ UNCHANGED <<nextId, slot>>
          ELSE IF found # {}
          THEN /\ \E genreExists \in found :
                    out' = Respond("genre_create_post", 0, body, errors,
                                   <<"Genre.findOne">>,
                                   <<redirect(GenreUrl(genreExists._id))>>,
                                   FALSE)
               /\ UNCHANGED <<nextId, slot>>
          ELSE /\ nextId <= MaxIds
               /\ slot' = [slot EXCEPT ![s] =
                             [pc |-> "save", op |-> "genre_create_post",
                              id |-> 0, body |-> body, doc |-> genre,
                              raced |-> FALSE]]
               /\ nextId' = nextId + 1
               /\ out' = None
  /\ UNCHANGED <<controller, Author, Genre, Book>>

\* await genre.save(); res.redirect(genre.url)
genre_create_save(s) ==
  /\ slot[s].pc = "save" /\ slot[s].op = "genre_create_post"
  /\ Genre' = Genre \cup {slot[s].doc}
  /\ out' = Respond("genre_create_post", 0, slot[s].body, <<>>,
                    <<"Genre.findOne", "genre.save">>,
                    <<redirect(GenreUrl(slot[s].doc._id))>>, slot[s].raced)
  /\ slot' = [Raced(s) EXCEPT ![s] = Idle]
  /\ UNCHANGED <<controller, Author, Book, nextId>>

genre_delete_get(s) ==
  /\ controller = "genre" /\ Free(s)
  /\ \E id \in Ids :
       LET genre == findById(Genre, id)
           booksInGenre == booksOfGenre(id)
           view == render("genre_delete",
                          [genre |-> genre, genre_books |-> booksInGenre])
       IN out' = Respond("genre_delete_get", id, Null, <<>>,
                         <<"Genre.findById", "Book.find">>,
                         IF genre = Null
                         THEN <<redirect(listUrl("/catalog/genre")), view>>
                         ELSE <<view>>,
                         FALSE)
  /\ UNCHANGED <<controller, Author, Genre, Book, nextId, slot>>

genre_delete_post(s) ==
  /\ controller = "genre" /\ Free(s)
  /\ \E id \in Ids, genreid \in Ids :
       LET genre == findById(Genre, id)
           booksInGenre == booksOfGenre(id)
           body == [genreid |-> genreid]
       IN IF Cardinality(booksInGenre) > 0
          THEN /\ out' = Respond("genre_delete_post", id, body, <<>>,
                                 <<"Genre.findById", "Book.find">>,
                                 <<render("genre_delete",
                                          [genre |-> genre,
                                           genre_books |-> booksInGenre])>>,
                                 FALSE)
               /\ UNCHANGED slot
          ELSE /\ slot' = [slot EXCEPT ![s] =
                             [pc |-> "delete", op |-> "genre_delete_post",
                              id |-> id, body |-> body, doc |-> Null,
                              raced |-> FALSE]]
               /\ out' = None
  /\ UNCHANGED <<controller, Author, Genre, Book, nextId>>

\* await Genre.findByIdAndDelete(req.body.genreid); res.redirect(...)
genre_delete_confirm(s) ==
  /\ slot[s].pc = "delete" /\ slot[s].op = "genre_delete_post"
  /\ Genre' = findByIdAndDelete(Genre, slot[s].body.genreid)
  /\ out' = Respond("genre_delete_post", slot[s].id, slot[s].body, <<>>,
                    <<"Genre.findById", "Book.find", "Genre.findByIdAndDelete">>,
                    <<redirect(listUrl("/catalog/genres"))>>, slot[s].raced)
  /\ slot' = [Raced(s) EXCEPT ![s] = Idle]
  /\ UNCHANGED <<controller, Author, Book, nextId>>

genre_update_get(s) ==
  /\ controller = "genre" /\ Free(s)
  /\ \E id \in Ids :
       LET genre == findById(Genre, id)
           view == render("genre_form", [genre |-> genre, errors |-> <<>>])
       IN out' = Respond("genre_update_get", id, Null, <<>>,
                         <<"Genre.findById">>,
                         IF genre = Null
                         THEN <<redirect(listUrl("/catalog/genres")), view>>
                         ELSE <<view>>,
                         FALSE)
  /\ UNCHANGED <<controller, Author, Genre, Book, nextId, slot>>

genre_update_post(s) ==
  /\ controller = "genre" /\ Free(s)
  /\ \E id \in Ids, name \in NameInputs :
       LET errors == genre_update_chain(name)
           body == genre_body(name)
           genre == [_id |-> id, name |-> body.name]
           updatedGenre == findById(Genre, id)
       IN IF ~isEmpty(errors)
          THEN /\ out' = Respond("genre_update_post", id, body, errors, <<>>,
                                 <<render("genre_form",
                                          [genre |-> genre,
                                           errors |-> errors])>>,
                                 FALSE)
               /\ UNCHANGED <<Genre, slot>>
          ELSE /\ Genre' = findByIdAndUpdate(Genre, id, genre)
               /\ slot' = Raced(s)
               /\ out' = Respond("genre_update_post", id, body, errors,
                                 <<"Genre.findByIdAndUpdate">>,
                                 IF updatedGenre = Null
                                 THEN <<nextErr("TypeError", 500)>>
                                 ELSE <<redirect(GenreUrl(updatedGenre._id))>>,
                                 FALSE)
  /\ UNCHANGED <<controller, Author, Book, nextId>>

----------------------------------------------------------------------------
(* Author controller *)

AuthorUrl(id) == url("/catalog/author/", id)

\* body(field).trim().isLength({ min: 1 }).escape().withMessage(m1)
\*   .isAlphanumeric().withMessage(m2)
name_chain(path, value, m1, m2) ==
  (IF isLength(trim(value), 1) THEN <<>> ELSE <<Error(path, m1)>>)
  \o (IF isAlphanumeric(escape(trim(value))) THEN <<>>
      ELSE <<Error(path, m2)>>)

\* body(field, m).optional({ values: 'falsy' }).isISO8601().toDate()
date_chain(path, value, m) ==
  IF falsy(value) \/ isISO8601(value) THEN <<>> ELSE <<Error(path, m)>>

date_value(value) == IF falsy(value) THEN Empty ELSE toDate(value)

author_chain(form) ==
  name_chain("first_name", form.first_name, "First name must be specified",
             "First name has non-alphanumeric characters")
  \o name_chain("family_name", form.family_name,
                "Family name must be specified.",
                "Family name has non-alphanumeric characters.")
  \o date_chain("date_of_birth", form.date_of_birth, "invalid date of birth")
  \o date_chain("date_of_death", form.date_of_death, "invalid date of death")

author_body(form) ==
  [first_name |-> escape(trim(form.first_name)),
   family_name |-> escape(trim(form.family_name)),
   date_of_birth |-> date_value(form.date_of_birth),
   date_of_death |-> date_value(form.date_of_death)]

\* the Date cast of the schema: '' is stored as null
castDate(v) == IF v = Empty THEN Null ELSE v

\* new Author({ ..., _id })
new_Author(id, body) ==
  [_id |-> id,
   first_name |-> body.first_name,
   family_name |-> body.family_name,
   date_of_birth |-> castDate(body.date_of_birth),
   date_of_death |-> castDate(body.date_of_death)]

\* a lookup by first name and family name that never matches
Author_findOne_none(author) == {}

\* Author.findOne({ first_name, family_name })
Author_findOne(author) ==
  {d \in Author : /\ d.first_name = author.first_name
                   /\ d.family_name = author.family_name}

author_detail(s) ==
  /\ controller = "author" /\ Free(s)
  /\ \E id \in Ids :
       LET author == findById(Author, id)
           allBooksByAuthor == booksOfAuthor(id)
       IN out' = Respond("author_detail", id, Null, <<>>,
                         <<"Author.findById", "Book.find">>,
                         IF author = Null
                         THEN not_found("Author not found")
                         ELSE <<render("author_detail",
                                       [author |-> author,
                                        author_books |-> allBooksByAuthor])>>,
                         FALSE)
  /\ UNCHANGED <<controller, Author, Genre, Book, nextId, slot>>

author_create_post(s) ==
  /\ controller = "author" /\ Free(s)
  /\ \E form \in AuthorInputs :
       LET errors == author_chain(form)
           body == author_body(form)
           author == new_Author(nextId, body)
           found == Author_findOne(author)
       IN IF ~isEmpty(errors)
          THEN /\ out' = Respond("author_create_post", 0, body, errors, <<>>,
                                 <<render("author_form",
                                          [author |-> author,
                                           errors |-> errors])>>,
                                 FALSE)
               /\ UNCHANGED <<nextId, slot>>
          ELSE IF found # {}
          THEN /\ \E authorExists \in found :
                    out' = Respond("author_create_post", 0, body, errors,
                                   <<"Author.findOne">>,
                                   <<redirect(AuthorUrl(authorExists._id))>>,
                                   FALSE)
               /\ UNCHANGED <<nextId, slot>>
          ELSE /\ nextId <= MaxIds
               /\ slot' = [slot EXCEPT ![s] =
                             [pc |-> "save", op |-> "author_create_post",
                              id |-> 0, body |-> body, doc |-> author,
                              raced |-> FALSE]]
               /\ nextId' = nextId + 1
               /\ out' = None
  /\ UNCHANGED <<controller, Author, Genre, Book>>

\* await author.save(); res.redirect(author.url)
author_create_save(s) ==
  /\ slot[s].pc = "save" /\ slot[s].op = "author_create_post"
  /\ Author' = Author \cup {slot[s].doc}
  /\ out' = Respond("author_create_post", 0, slot[s].body, <<>>,
                    <<"Author.findOne", "author.save">>,
                    <<redirect(AuthorUrl(slot[s].doc._id))>>, slot[s].raced)
  /\ slot' = [Raced(s) EXCEPT ![s] = Idle]
  /\ UNCHANGED <<controller, Genre, Book, nextId>>

author_delete_get(s) ==
  /\ controller = "author" /\ Free(s)
  /\ \E id \in Ids :
       LET author == findById(Author, id)
           allBooksByAuthor == booksOfAuthor(id)
           view == render("author_delete",
                          [author |-> author,
                           author_books |-> allBooksByAuthor])
       IN out' = Respond("author_delete_get", id, Null, <<>>,
                         <<"Author.findById", "Book.find">>,
                         IF author = Null
                         THEN <<redirect(listUrl("/catalog/authors")), view>>
                         ELSE <<view>>,
                         FALSE)
  /\ UNCHANGED <<controller, Author, Genre, Book, nextId, slot>>

author_delete_post(s) ==
  /\ controller = "author" /\ Free(s)
  /\ \E id \in Ids, authorid \in Ids :
       LET author == findById(Author, id)
           allBooksByAuthor == booksOfAuthor(id)
           body == [authorid |-> authorid]
       IN IF Cardinality(allBooksByAuthor) > 0
          THEN /\ out' = Respond("author_delete_post", id, body, <<>>,
                                 <<"Author.findById", "Book.find">>,
                                 <<render("author_delete",
                                          [author |-> author,
                                           author_books |-> allBooksByAuthor])>>,
                                 FALSE)
               /\ UNCHANGED slot
          ELSE /\ slot' = [slot EXCEPT ![s] =
                             [pc |-> "delete", op |-> "author_delete_post",
                              id |-> id, body |-> body, doc |-> Null,
                              raced |-> FALSE]]
               /\ out' = None
  /\ UNCHANGED <<controller, Author, Genre, Book, nextId>>

\* await Author.findByIdAndDelete(req.body.authorid); res.redirect(...)
author_delete_confirm(s) ==
  /\ slot[s].pc = "delete" /\ slot[s].op = "author_delete_post"
  /\ Author' = findByIdAndDelete(Author, slot[s].body.authorid)
  /\ out' = Respond("author_delete_post", slot[s].id, slot[s].body, <<>>,
                    <<"Author.findById", "Book.find",
                      "Author.findByIdAndDelete">>,
                    <<redirect(listUrl("/catalog/authors"))>>, slot[s].raced)
  /\ slot' = [Raced(s) EXCEPT ![s] = Idle]
  /\ UNCHANGED <<controller, Genre, Book, nextId>>

author_update_get(s) ==
  /\ controller = "author" /\ Free(s)
  /\ \E id \in Ids :
       LET author == findById(Author, id)
       IN out' = Respond("author_update_get", id, Null, <<>>,
                         <<"Author.findById">>,
                         IF author = Null
                         THEN not_found("Author not found")
                         ELSE <<render("author_form",
                                       [author |-> author,
                                        errors |-> <<>>])>>,
                         FALSE)
  /\ UNCHANGED <<controller, Author, Genre, Book, nextId, slot>>

author_update_post(s) ==
  /\ controller = "author" /\ Free(s)
  /\ \E id \in Ids, form \in AuthorInputs :
       LET errors == author_chain(form)
           body == author_body(form)
           updatedAuthor == new_Author(id, body)
       IN IF ~isEmpty(errors)
          THEN /\ out' = Respond("author_update_post", id, body, errors, <<>>,
                                 <<render("author_form",
                                          [author |-> updatedAuthor,
                                           errors |-> errors])>>,
                                 FALSE)
               /\ UNCHANGED <<Author, slot>>
          ELSE /\ Author' = findByIdAndUpdate(Author, id, updatedAuthor)
               /\ slot' = Raced(s)
               /\ out' = Respond("author_update_post", id, body, errors,
                                 <<"Author.findByIdAndUpdate">>,
                                 <<redirect(AuthorUrl(updatedAuthor._id))>>,
                                 FALSE)
  /\ UNCHANGED <<controller, Genre, Book, nextId>>

----------------------------------------------------------------------------
(* The environment: Books come and go *)

\* a Book references one Author and one Genre; the reference into the
\* collection of the other controller is never read here and names a
\* document outside the model (0)
NewBook(id, ref) ==
  [_id |-> id,
   author |-> IF controller = "author" THEN ref ELSE 0,
   genre |-> IF controller = "genre" THEN ref ELSE 0]

AddBook ==
  /\ \E id \in BookIds, ref \in Ids :
       /\ \A b \in Book : b._id # id
       /\ Book' = Book \cup {NewBook(id, ref)}
  /\ out' = None
  /\ UNCHANGED <<controller, Author, Genre, nextId, slot>>

RemoveBook ==
  /\ \E b \in Book : Book' = Book \ {b}
  /\ out' = None
  /\ UNCHANGED <<controller, Author, Genre, nextId, slot>>

----------------------------------------------------------------------------

Init ==
  /\ controller \in {"author", "genre"}
  /\ Author = {}
  /\ Genre = {}
  /\ Book = {}
  /\ nextId = 1
  /\ slot = [s \in Slots |-> Idle]
  /\ out = None

Next ==
  \/ \E s \in Slots : author_detail(s)
  \/ \E s \in Slots : author_create_post(s)
  \/ \E s \in Slots : author_create_save(s)
  \/ \E s \in Slots : author_delete_get(s)
  \/ \E s \in Slots : author_delete_post(s)
  \/ \E s \in Slots : author_delete_confirm(s)
  \/ \E s \in Slots : author_update_get(s)
  \/ \E s \in Slots : author_update_post(s)
  \/ \E s \in Slots : genre_detail(s)
  \/ \E s \in Slots : genre_create_post(s)
  \/ \E s \in Slots : genre_create_save(s)
  \/ \E s \in Slots : genre_delete_get(s)
  \/ \E s \in Slots : genre_delete_post(s)
  \/ \E s \in Slots : genre_delete_confirm(s)
  \/ \E s \in Slots : genre_update_get(s)
  \/ \E s \in Slots : genre_update_post(s)
  \/ AddBook
  \/ RemoveBook

Spec == Init /\ [][Next]_vars

\* requests one at a time: the server has a single request in flight
SeqNext ==
  \/ author_detail(1)
  \/ author_create_post(1)
  \/ author_create_save(1)
  \/ author_delete_get(1)
  \/ author_delete_post(1)
  \/ author_delete_confirm(1)
  \/ author_update_get(1)
  \/ author_update_post(1)
  \/ genre_detail(1)
  \/ genre_create_post(1)
  \/ genre_create_save(1)
  \/ genre_delete_get(1)
  \/ genre_delete_post(1)
  \/ genre_delete_confirm(1)
  \/ genre_update_get(1)
  \/ genre_update_post(1)
  \/ AddBook
  \/ RemoveBook

SeqSpec == Init /\ [][SeqNext]_vars

\* the handlers that write a natural key, any number of them in flight
KeyNext ==
  \/ \E s \in Slots : author_create_post(s)
  \/ \E s \in Slots : author_create_save(s)
  \/ \E s \in Slots : author_update_post(s)
  \/ \E s \in Slots : genre_create_post(s)
  \/ \E s \in Slots : genre_create_save(s)
  \/ \E s \in Slots : genre_update_post(s)

KeySpec == Init /\ [][KeyNext]_vars

----------------------------------------------------------------------------
(* Properties *)

CreatePosts == {"author_create_post", "genre_create_post"}
UpdatePosts == {"author_update_post", "genre_update_post"}

IdsOf(coll) == {d._id : d \in coll}

SameKey(d, e) ==
  IF controller = "author"
  THEN d.first_name = e.first_name /\ d.family_name = e.family_name
  ELSE d.name = e.name

\* C1: a delete-confirmation step never removes an Author or Genre that a
\* Book references at the moment of the removal.
C1_ReferentialIntegrity ==
  [][/\ \A d \in Author :
          d._id \notin IdsOf(Author') => booksOfAuthor(d._id) = {}
     /\ \A d \in Genre :
          d._id \notin IdsOf(Genre') => booksOfGenre(d._id) = {}]_vars

\* C2: with one request at a time, a valid create whose natural key no stored
\* document has inserts exactly one new document with that key and redirects
\* to its url; a valid create whose key a stored document has redirects to
\* that document's url and leaves the collection as it was; so a create never
\* makes two documents share a natural key.
C2_Create(coll, coll2, route) ==
  LET same == {d \in coll : SameKey(d, out'.body)}
  IN /\ IF same = {}
        THEN \E d \in coll2 :
               /\ d._id \notin IdsOf(coll)
               /\ coll2 = coll \cup {d}
               /\ SameKey(d, out'.body)
               /\ out'.resp = <<redirect(url(route, d._id))>>
        ELSE /\ coll2 = coll
             /\ \E d \in same : out'.resp = <<redirect(url(route, d._id))>>
     /\ (\A d, e \in coll : SameKey(d, e) => d = e)
          => (\A d, e \in coll2 : SameKey(d, e) => d = e)

C2_IdempotentCreate ==
  [][out'.op \in CreatePosts /\ out'.errors = <<>>
       => IF controller = "author"
          THEN C2_Create(Author, Author', "/catalog/author/")
          ELSE C2_Create(Genre, Genre', "/catalog/genre/")]_vars

C2_Witness ==
  /\ out.op = "genre_create_post"
  /\ out.calls = <<"Genre.findOne">>
  /\ \E d \in Genre : /\ d.name = out.body.name
                      /\ out.resp = <<redirect(GenreUrl(d._id))>>
  /\ Cardinality(Genre) = 2

\* C3: a create or update submit that fails validation issues no store call,
\* leaves both collections as they were, and answers with one render of the
\* form carrying the candidate built from the submitted values and the errors.
C3_Candidate(c) ==
  /\ out'.op \in UpdatePosts => c._id = out'.id
  /\ IF controller = "author"
     THEN c = new_Author(c._id, out'.body)
     ELSE c = [_id |-> c._id, name |-> out'.body.name]

C3_ValidationNeverPersists ==
  [][out'.op \in CreatePosts \cup UpdatePosts /\ out'.errors # <<>>
       => /\ out'.calls = <<>>
          /\ Author' = Author /\ Genre' = Genre
          /\ Len(out'.resp) = 1
          /\ out'.resp[1].act = "render"
          /\ IF controller = "author"
             THEN /\ out'.resp[1].view = "author_form"
                  /\ C3_Candidate(out'.resp[1].locals.author)
             ELSE /\ out'.resp[1].view = "genre_form"
                  /\ C3_Candidate(out'.resp[1].locals.genre)
          /\ out'.resp[1].locals.errors = out'.errors]_vars

C3_Witness ==
  /\ out.op = "author_update_post"
  /\ Len(out.errors) = 4
  /\ Author # {}
  /\ out.resp[1].view = "author_form"

\* C4: the delete confirmation, when it read no Book referencing the
\* document the route names, removes that document and redirects to the list;
\* when it read one or more, it leaves the collection as it was and renders
\* the confirmation view with exactly the referencing Books.
C4_Delete(coll, coll2, books, view, list) ==
  IF Len(out'.calls) = 3
  THEN /\ out'.id \notin IdsOf(coll2)
       /\ out'.resp = <<redirect(listUrl(list))>>
  ELSE /\ coll2 = coll
       /\ books # {}
       /\ Len(out'.resp) = 1
       /\ out'.resp[1].act = "render"
       /\ out'.resp[1].view = view

C4_DeleteOutcome ==
  [][/\ out'.op = "author_delete_post"
          => /\ C4_Delete(Author, Author', booksOfAuthor(out'.id),
                          "author_delete", "/catalog/authors")
             /\ Len(out'.calls) = 2
                  => out'.resp[1].locals.author_books = booksOfAuthor(out'.id)
     /\ out'.op = "genre_delete_post"
          => /\ C4_Delete(Genre, Genre', booksOfGenre(out'.id),
                          "genre_delete", "/catalog/genres")
             /\ Len(out'.calls) = 2
                  => out'.resp[1].locals.genre_books = booksOfGenre(out'.id)
    ]_vars

\* C5: a valid update submit on a stored document keeps its identifier and
\* url, stores the submitted value in every other field, changes no other
\* document, and neither inserts nor removes a document.
C5_Update(coll, coll2, fresh, route) ==
  out'.id \in IdsOf(coll)
    => /\ IdsOf(coll2) = IdsOf(coll)
       /\ Cardinality(coll2) = Cardinality(coll)
       /\ \A d \in coll : d._id # out'.id => d \in coll2
       /\ fresh \in coll2
       /\ out'.resp = <<redirect(url(route, out'.id))>>

C5_UpdatePreservesIdentity ==
  [][out'.op \in UpdatePosts /\ out'.errors = <<>>
       => IF controller = "author"
          THEN C5_Update(Author, Author',
                         [_id |-> out'.id,
                          first_name |-> out'.body.first_name,
                          family_name |-> out'.body.family_name,
                          date_of_birth |-> castDate(out'.body.date_of_birth),
                          date_of_death |-> castDate(out'.body.date_of_death)],
                         "/catalog/author/")
          ELSE C5_Update(Genre, Genre',
                         [_id |-> out'.id, name |-> out'.body.name],
                         "/catalog/genre/")]_vars

C5_Witness ==
  /\ out.op = "author_update_post"
  /\ out.errors = <<>>
  /\ Cardinality(Author) = 2
  /\ \E d \in Author : d._id = out.id /\ d.date_of_death # Null

\* C6: author_detail, genre_detail and author_update_get on an identifier no
\* document has pass one error of status 404 to next and render nothing; the
\* detail of a stored document no Book references is rendered with an empty
\* book list and no error.
C6_NotFound ==
  /\ out.op \in {"author_detail", "author_update_get"}
       /\ out.id \notin IdsOf(Author)
       => /\ Len(out.resp) = 1
          /\ out.resp[1].act = "next" /\ out.resp[1].status = 404
  /\ out.op = "genre_detail" /\ out.id \notin IdsOf(Genre)
       => /\ Len(out.resp) = 1
          /\ out.resp[1].act = "next" /\ out.resp[1].status = 404
  /\ out.op = "author_detail" /\ out.id \in IdsOf(Author)
       /\ booksOfAuthor(out.id) = {}
       => out.resp = <<render("author_detail",
                              [author |-> findById(Author, out.id),
                               author_books |-> {}])>>
  /\ out.op = "genre_detail" /\ out.id \in IdsOf(Genre)
       /\ booksOfGenre(out.id) = {}
       => out.resp = <<render("genre_detail",
                              [genre |-> findById(Genre, out.id),
                               genre_books |-> {}])>>

C6_Witness ==
  /\ out.op = "author_update_get"
  /\ out.id \notin IdsOf(Author)
  /\ Author # {}
  /\ out.resp[1].status = 404

\* C7: genre_update_get, genre_delete_get and author_delete_get on an
\* identifier no document has answer with one redirect to the list view and
\* nothing else.
C7_SilentRedirect ==
  /\ out.op \in {"genre_update_get", "genre_delete_get"}
       /\ out.id \notin IdsOf(Genre)
       => out.resp = <<redirect(listUrl("/catalog/genres"))>>
  /\ out.op = "author_delete_get" /\ out.id \notin IdsOf(Author)
       => out.resp = <<redirect(listUrl("/catalog/authors"))>>

\* C8: every stored Genre has a name of at least 3 characters.
C8_GenreNameLength == \A d \in Genre : Len(d.name) >= 3

\* C9: a create inserts a document whose natural key another stored document
\* has only when the collection was written between the create's lookup and
\* its insert, which needs a second request in flight; two concurrent creates
\* of one key do reach that state.
C9_Inserted ==
  /\ out.op \in CreatePosts
  /\ Len(out.calls) = 2
  /\ LET coll == IF controller = "author" THEN Author ELSE Genre
     IN \E d, e \in coll : d._id # e._id /\ SameKey(d, out.body)
                            /\ SameKey(e, out.body)

C9_CheckThenInsertRace == C9_Inserted => out.raced

C9_Witness == C9_Inserted /\ out.raced /\ controller = "genre"

\* C10: a valid update submit answers with a redirect to the url of the route
\* identifier, whether or not a document with that identifier is stored.
C10_UpdateRedirects ==
  out.op \in UpdatePosts /\ out.errors = <<>>
    => out.resp = <<redirect(IF controller = "author" THEN AuthorUrl(out.id)
                             ELSE GenreUrl(out.id))>>

====
